---------------------------- MODULE Spec2Model ----------------------------
(***************************************************************************)
(* A model of src/indexer.py: an inverted index built once from a corpus   *)
(* (build_index) and then scored, query after query, by bm25_ranking and   *)
(* ql_ranking, as main drives them.                                        *)
(*                                                                         *)
(* A text is a sequence of one-character strings, a term a non-empty       *)
(* sequence of non-blank characters.  The index is a function from the     *)
(* terms that are keys of the defaultdict to sequences of Posting records. *)
(* The program's scores are IEEE doubles; the model keeps them as          *)
(* fixed-point integers in units of 1/Scale and evaluates the formulas in  *)
(* the order the code does.                                                *)
(***************************************************************************)
EXTENDS Integers, Sequences, FiniteSets, TLC

VARIABLES
    pc,                 \* "load": corpus read, index not built; "ready"; "crashed"
    corpus,             \* the list read_data returns: records [sceneId, text]
    index,              \* the defaultdict(list) of build_index
    collectionLength,   \* total number of tokens
    cqi,                \* dict: term -> occurrences in the whole corpus
    nq,                 \* number of query rows main has processed
    last,               \* the last row processed and what main wrote for it
    prev                \* the row before it and what main wrote for it

vars == <<pc, corpus, index, collectionLength, cqi, nq, last, prev>>

----------------------------------------------------------------------------
(* Bounds of the model *)

MaxDocs == 2
MaxQueries == 2
MaxTextLen == 5
BigDocs == 8
Scale == 1000

(* Constants of the program *)

K1Tenths == 18
k2 == 5
BHundredths == 75
mue == 300
TopK == 100

----------------------------------------------------------------------------
(* Generic helpers *)

Min(a, b) == IF a < b THEN a ELSE b

EmptyMap == [x \in {} |-> <<>>]

Put(f, k, v) == [x \in (DOMAIN f) \cup {k} |-> IF x = k THEN v ELSE f[x]]

SeqsUpTo(S, n) == UNION {[1..m -> S] : m \in 0..n}

----------------------------------------------------------------------------
(* str.split(): the whitespace-delimited tokens of a text, in order *)

RECURSIVE SplitFrom(_, _, _)
SplitFrom(text, i, cur) ==
    IF i > Len(text)
    THEN IF cur = <<>> THEN <<>> ELSE <<cur>>
    ELSE IF text[i] = " "
         THEN (IF cur = <<>> THEN <<>> ELSE <<cur>>) \o SplitFrom(text, i + 1, <<>>)
         ELSE SplitFrom(text, i + 1, Append(cur, text[i]))

Split(text) == SplitFrom(text, 1, <<>>)

----------------------------------------------------------------------------
(* build_index *)

\* the constructor called with the identifier and the corpus size exchanged
NewPostingSwapped(doc_id, positions, termCount, docLen, score, N) ==
    [doc_id |-> N, positions |-> positions, termCount |-> termCount,
     docLen |-> docLen, score |-> score, N |-> doc_id]

NewPosting(doc_id, positions, termCount, docLen, score, N) ==
    [doc_id |-> doc_id, positions |-> positions, termCount |-> termCount,
     docLen |-> docLen, score |-> score, N |-> N]

\* enumerate(..., 1): offsets counted from one
OffsetFromOne(i) == i

\* enumerate(...): the 0-based offset of the i-th token
Offset(i) == i - 1

\* lines 77-80: doc_index[term].append(i) for every token; keys keep insertion order
RECURSIVE DocIndexLoop(_, _, _)
DocIndexLoop(toks, i, di) ==
    IF i > Len(toks) THEN di
    ELSE LET term == toks[i]
             seen == term \in DOMAIN di.pos
             old  == IF seen THEN di.pos[term] ELSE <<>>
         IN  DocIndexLoop(toks, i + 1,
                 [keys |-> IF seen THEN di.keys ELSE Append(di.keys, term),
                  pos  |-> Put(di.pos, term, Append(old, Offset(i)))])

DocIndex(toks) == DocIndexLoop(toks, 1, [keys |-> <<>>, pos |-> EmptyMap])

\* lines 82-88: one Posting per key of doc_index, and the cqi update
RECURSIVE PostingsLoop(_, _, _, _, _)
PostingsLoop(b, doc, di, k, N) ==
    IF k > Len(di.keys) THEN b
    ELSE LET term      == di.keys[k]
             positions == di.pos[term]
             p   == NewPosting(doc.sceneId, positions, Len(positions),
                               Len(Split(doc.text)), 0, N)
             lst == IF term \in DOMAIN b.index THEN b.index[term] ELSE <<>>
             c   == IF term \in DOMAIN b.cqi
                    THEN b.cqi[term] + Len(positions)
                    ELSE Len(positions)
         IN  PostingsLoop([b EXCEPT !.index = Put(b.index, term, Append(lst, p)),
                                    !.cqi   = Put(b.cqi, term, c)],
                          doc, di, k + 1, N)

\* lines 75-88: the loop over the corpus
RECURSIVE BuildLoop(_, _, _)
BuildLoop(b, docs, d) ==
    IF d > Len(docs) THEN b
    ELSE LET toks == Split(docs[d].text)
             b1   == [b EXCEPT !.collectionLength = @ + Len(toks)]
         IN  BuildLoop(PostingsLoop(b1, docs[d], DocIndex(toks), 1, Len(docs)),
                       docs, d + 1)

build_index(docs) ==
    BuildLoop([index |-> EmptyMap, cqi |-> EmptyMap, collectionLength |-> 0], docs, 1)

----------------------------------------------------------------------------
(* Arithmetic on scores: fixed-point numbers, x stands for x / Scale *)

FxMul(x, y) == (x * y) \div Scale

FxDiv(x, y) == (x * Scale) \div y

Ln2Fx == (693147 * Scale) \div 1000000

\* the series 2 * (z + z^3/3 + z^5/5 + z^7/7), z = (n - d) / (n + d), for 1 <= n/d < 2
LnSeries(n, d) ==
    LET z  == ((n - d) * Scale) \div (n + d)
        z2 == FxMul(z, z)
        z3 == FxMul(z, z2)
        z5 == FxMul(z3, z2)
        z7 == FxMul(z5, z2)
    IN  2 * (z + (z3 \div 3) + (z5 \div 5) + (z7 \div 7))

\* the logarithm of n / d for n >= d > 0: halve the ratio until it is below 2
RECURSIVE LnPos(_, _)
LnPos(n, d) == IF n >= 2 * d THEN LnPos(n, 2 * d) + Ln2Fx ELSE LnSeries(n, d)

\* math.log(n / d, math.e) for n, d > 0
LnFx(n, d) == IF n >= d THEN LnPos(n, d) ELSE 0 - LnPos(d, n)

----------------------------------------------------------------------------
(* What the scorers share *)

\* index[term] on the defaultdict: a missing key is inserted with an empty list
defaultdict_getitem(idx, term) ==
    IF term \in DOMAIN idx THEN idx ELSE Put(idx, term, <<>>)

\* collections.Counter(row[3:]): the distinct terms in order of first occurrence,
\* each with the number of times it occurs
RECURSIVE CounterLoop(_, _, _)
CounterLoop(row, i, c) ==
    IF i > Len(row) THEN c
    ELSE LET t    == row[i]
             seen == t \in DOMAIN c.count
         IN  CounterLoop(row, i + 1,
                 [keys  |-> IF seen THEN c.keys ELSE Append(c.keys, t),
                  count |-> Put(c.count, t, IF seen THEN c.count[t] + 1 ELSE 1)])

Counter(row) == CounterLoop(row, 1, [keys |-> <<>>, count |-> [x \in {} |-> 0]])

\* what main writes for a posting: its doc_id and its score when the scorer returns
Entry(idx, ref) ==
    [doc_id |-> idx[ref.term][ref.i].doc_id, score |-> idx[ref.term][ref.i].score]

Entries(idx, refs) == [j \in 1..Len(refs) |-> Entry(idx, refs[j])]

\* a descending sort that lets later elements of equal score overtake earlier ones
BeforeOrTied(x, y) == x.score >= y.score

\* x goes before y in list.sort(key=lambda x: x.score, reverse=True)
Before(x, y) == x.score > y.score

\* two sorted lists merged; of two elements neither of which goes before the other,
\* the one of xs comes first
\* (px, py: the places of the elements in the merged list, each built once)
Merge(xs, ys) ==
    LET px == [i \in 1..Len(xs) |->
                  i + Cardinality({j \in 1..Len(ys) : Before(ys[j], xs[i])})] \o <<>>
        py == [j \in 1..Len(ys) |->
                  j + Cardinality({i \in 1..Len(xs) : ~Before(ys[j], xs[i])})] \o <<>>
    IN  [k \in 1..(Len(xs) + Len(ys)) |->
            IF \E i \in 1..Len(xs) : px[i] = k
            THEN xs[CHOOSE i \in 1..Len(xs) : px[i] = k]
            ELSE ys[CHOOSE j \in 1..Len(ys) : py[j] = k]] \o <<>>

\* list.sort(key=lambda x: x.score, reverse=True): a stable merge sort
RECURSIVE SortByScore(_)
SortByScore(es) ==
    IF Len(es) <= 1 THEN es
    ELSE LET h == Len(es) \div 2
         IN  Merge(SortByScore(SubSeq(es, 1, h)), SortByScore(SubSeq(es, h + 1, Len(es))))

\* top100[:100]
Slice(s) == SubSeq(s, 1, Min(TopK, Len(s)))

\* lines 127-130 and 168-171: the value a scorer returns, with the list it sorted
Finish(st) ==
    IF st.err
    THEN [err |-> TRUE, index |-> st.index, produced |-> <<>>, result |-> <<>>]
    ELSE [err |-> FALSE, index |-> st.index,
          produced |-> Entries(st.index, st.top100),
          result   |-> Slice(SortByScore(Entries(st.index, st.top100)))]

----------------------------------------------------------------------------
(* bm25_ranking *)

\* lines 119-123: first * second * third
Bm25Term(N, avgdl, ni, qfi, fi, dl) ==
    LET b      == (BHundredths * Scale) \div 100
        K      == (K1Tenths * ((Scale - b) + FxMul(b, FxDiv(dl * Scale, avgdl)))) \div 10
        first  == LnFx(2 * (N - ni) + 1, 2 * ni + 1)
        second == FxDiv(((K1Tenths + 10) * fi * Scale) \div 10, K + fi * Scale)
        third  == FxDiv((k2 + 1) * qfi * Scale, (k2 + qfi) * Scale)
    IN  FxMul(FxMul(first, second), third)

\* the division by avgdl and the logarithm of a number that is not positive raise
Bm25Raises(N, avgdl, ni) == avgdl = 0 \/ 2 * (N - ni) + 1 <= 0

\* the posting's score field added to, as ql_ranking does
Bm25StoreAdded(old, score) == old + score

\* line 124: the posting's score field is set from the call's own accumulator
Bm25Store(old, score) == score

\* lines 114-125
RECURSIVE Bm25Postings(_, _, _, _, _, _)
Bm25Postings(st, env, docs, term, ni, i) ==
    IF st.err \/ i > Len(st.index[term]) THEN st
    ELSE LET posting == st.index[term][i]
         IN  IF posting.doc_id = docs.sceneId
             THEN IF Bm25Raises(env.N, env.avgdl, ni)
                  THEN [st EXCEPT !.err = TRUE]
                  ELSE LET score == st.score +
                                    Bm25Term(env.N, env.avgdl, ni, env.terms.count[term],
                                             posting.termCount, posting.docLen)
                       IN  Bm25Postings(
                               [st EXCEPT !.score = score,
                                          !.index[term][i].score =
                                              Bm25Store(posting.score, score),
                                          !.top100 = Append(@, [term |-> term, i |-> i])],
                               env, docs, term, ni, i + 1)
             ELSE Bm25Postings(st, env, docs, term, ni, i + 1)

\* lines 111-113
RECURSIVE Bm25Terms(_, _, _, _)
Bm25Terms(st, env, docs, k) ==
    IF st.err \/ k > Len(env.terms.keys) THEN st
    ELSE LET term == env.terms.keys[k]
             st1  == [st EXCEPT !.index = defaultdict_getitem(st.index, term)]
             ni   == Len(st1.index[term])
         IN  Bm25Terms(Bm25Postings(st1, env, docs, term, ni, 1), env, docs, k + 1)

\* lines 109-110
RECURSIVE Bm25Docs(_, _, _, _)
Bm25Docs(st, env, docs, d) ==
    IF st.err \/ d > Len(docs) THEN st
    ELSE Bm25Docs(Bm25Terms([st EXCEPT !.score = 0], env, docs[d], 1), env, docs, d + 1)

bm25_ranking(idx, queryTerms, docs, cl) ==
    LET st0 == [index |-> idx, top100 |-> <<>>, score |-> 0, err |-> FALSE]
    IN  IF Len(docs) = 0
        THEN Finish([st0 EXCEPT !.err = TRUE])      \* line 96: division by zero
        ELSE Finish(Bm25Docs(st0,
                             [N |-> Len(docs), avgdl |-> FxDiv(cl * Scale, Len(docs) * Scale),
                              terms |-> queryTerms],
                             docs, 1))

----------------------------------------------------------------------------
(* ql_ranking *)

\* lines 154-155 and 163-164
QlTerm(fqi, c, cardC, cardD) ==
    LnFx(fqi * Scale + mue * FxDiv(c * Scale, cardC * Scale), (cardD + mue) * Scale)

\* cqi[term] of a missing key, the division by cardC and the logarithm of a
\* number that is not positive raise
QlRaises(cq, term, cardC, fqi) ==
    \/ term \notin DOMAIN cq
    \/ cardC = 0
    \/ fqi * cardC + mue * cq[term] <= 0

\* lines 147-166: both branches add to the posting's score and append the posting
RECURSIVE QlPostings(_, _, _, _, _)
QlPostings(st, env, docs, term, i) ==
    IF st.err \/ i > Len(st.index[term]) THEN st
    ELSE LET posting == st.index[term][i]
             fqi     == IF posting.doc_id = docs.sceneId THEN posting.termCount ELSE 0
             cardD   == posting.docLen
         IN  IF QlRaises(env.cqi, term, env.cardC, fqi)
             THEN [st EXCEPT !.err = TRUE]
             ELSE LET score == QlTerm(fqi, env.cqi[term], env.cardC, cardD)
                  IN  QlPostings(
                          [st EXCEPT !.score = score,
                                     !.index[term][i].score = posting.score + score,
                                     !.top100 = Append(@, [term |-> term, i |-> i])],
                          env, docs, term, i + 1)

\* cqi[term] read beside index[term], before the posting loop
QlLookupWithCqi(st, env, term) ==
    IF term \in DOMAIN env.cqi
    THEN [st EXCEPT !.index = defaultdict_getitem(st.index, term)]
    ELSE [st EXCEPT !.err = TRUE]

\* line 146-147: index[term] is looked up, cqi[term] only inside the posting loop
QlLookup(st, env, term) == [st EXCEPT !.index = defaultdict_getitem(st.index, term)]

RECURSIVE QlTerms(_, _, _, _)
QlTerms(st, env, docs, k) ==
    IF st.err \/ k > Len(env.terms.keys) THEN st
    ELSE LET term == env.terms.keys[k]
         IN  QlTerms(QlPostings(QlLookup(st, env, term), env, docs, term, 1),
                     env, docs, k + 1)

\* lines 144-145
RECURSIVE QlDocs(_, _, _, _)
QlDocs(st, env, docs, d) ==
    IF st.err \/ d > Len(docs) THEN st
    ELSE QlDocs(QlTerms([st EXCEPT !.score = 0], env, docs[d], 1), env, docs, d + 1)

ql_ranking(idx, terms, docs, cl, cq) ==
    Finish(QlDocs([index |-> idx, top100 |-> <<>>, score |-> 0, err |-> FALSE],
                  [cardC |-> cl, cqi |-> cq, terms |-> terms], docs, 1))

----------------------------------------------------------------------------
(* The inputs: corpora and query rows *)

Letters == {"a", "b"}

Vocabulary == {<<c>> : c \in Letters}

\* the tokens of a text separated by single blanks
RECURSIVE Join(_)
Join(toks) ==
    IF toks = <<>> THEN <<>>
    ELSE IF Len(toks) = 1 THEN toks[1]
    ELSE toks[1] \o <<" ">> \o Join(Tail(toks))

\* documents carry distinct identifiers (a string in the program): the i-th
\* document's sceneId is i
MkCorpus(texts) == [i \in 1..Len(texts) |-> [sceneId |-> i, text |-> texts[i]]]

\* texts of at most two tokens
Texts == {Join(toks) : toks \in SeqsUpTo(Vocabulary, 2)}

Corpora == {MkCorpus(ts) : ts \in SeqsUpTo(Texts, MaxDocs)}

\* row[3:] of a line of the queries file: no term, one term, two terms in either
\* order, one term twice
Rows == {<<>>, <<<<"a">>>>, <<<<"b">>>>, <<<<"a">>, <<"b">>>>, <<<<"b">>, <<"a">>>>, <<<<"a">>, <<"a">>>>}

NoRow == [model |-> "none", row |-> <<>>, raised |-> FALSE,
          produced |-> <<>>, result |-> <<>>]

----------------------------------------------------------------------------
(* The program: main *)

Start(cs) ==
    /\ pc = "load"
    /\ corpus \in cs
    /\ index = EmptyMap
    /\ collectionLength = 0
    /\ cqi = EmptyMap
    /\ nq = 0
    /\ last = NoRow
    /\ prev = NoRow

Init == Start(Corpora)

\* corpora large enough for a scorer to produce more than TopK entries: the first k
\* documents read "a b", the others "b a a", for none, half, all but one and all
BigCorpora ==
    {MkCorpus([i \in 1..BigDocs |->
                  IF i <= k THEN <<"a", " ", "b">> ELSE <<"b", " ", "a", " ", "a">>]) :
        k \in {0, BigDocs \div 2, BigDocs - 1, BigDocs}}

InitBig == Start(BigCorpora)

\* one-document corpora of arbitrary short texts, blanks anywhere
Characters == Letters \cup {" "}

TextCorpora == {MkCorpus(<<t>>) : t \in SeqsUpTo(Characters, MaxTextLen)}

InitText == Start(TextCorpora \cup Corpora \cup BigCorpora)

\* line 175
Build ==
    /\ pc = "load"
    /\ LET b == build_index(corpus)
       IN  /\ index' = b.index
           /\ collectionLength' = b.collectionLength
           /\ cqi' = b.cqi
    /\ pc' = "ready"
    /\ UNCHANGED <<corpus, nq, last, prev>>

\* one row of the queries file, its model "bm25" or "ql", scored and written; an
\* exception ends the program
Scored(model, row, r) ==
    /\ index' = r.index
    /\ pc' = IF r.err THEN "crashed" ELSE "ready"
    /\ last' = [model |-> model, row |-> row, raised |-> r.err,
                produced |-> r.produced, result |-> r.result]
    /\ prev' = last
    /\ nq' = nq + 1
    /\ UNCHANGED <<corpus, collectionLength, cqi>>

\* lines 183-188
QueryBm25 ==
    /\ pc = "ready"
    /\ nq < MaxQueries
    /\ \E row \in Rows :
          Scored("bm25", row, bm25_ranking(index, Counter(row), corpus, collectionLength))

\* lines 190-194
QueryQl ==
    /\ pc = "ready"
    /\ nq < MaxQueries
    /\ \E row \in Rows :
          Scored("ql", row, ql_ranking(index, Counter(row), corpus, collectionLength, cqi))

Next == Build \/ QueryBm25 \/ QueryQl

Spec == Init /\ [][Next]_vars

SpecBig == InitBig /\ [][Next]_vars

SpecText == InitText /\ [][Build]_vars

----------------------------------------------------------------------------
(* What the claims speak of *)

Ran == pc = "ready" /\ last.model # "none"

Fresh == build_index(corpus)

DocIds == {corpus[d].sceneId : d \in 1..Len(corpus)}

DocOf(id) == CHOOSE d \in 1..Len(corpus) : corpus[d].sceneId = id

Tokens(d) == Split(corpus[d].text)

\* the number of times term occurs in document d
Freq(d, term) == Cardinality({i \in 1..Len(Tokens(d)) : Tokens(d)[i] = term})

InCorpus(term) == \E d \in 1..Len(corpus) : Freq(d, term) > 0

TermsOf(row) == {row[i] : i \in 1..Len(row)}

\* the number of entries of a result that name document id
Count(result, id) == Cardinality({j \in 1..Len(result) : result[j].doc_id = id})

RECURSIVE Sum(_, _)
Sum(f, S) == IF S = {} THEN 0 ELSE LET x == CHOOSE x \in S : TRUE IN f[x] + Sum(f, S \ {x})

\* the value a scorer returns for a row, from a given state of the index
Rank(model, idx, row) ==
    IF model = "bm25"
    THEN bm25_ranking(idx, Counter(row), corpus, collectionLength)
    ELSE ql_ranking(idx, Counter(row), corpus, collectionLength, cqi)

----------------------------------------------------------------------------
(* C1: the same query run twice in a row against the same built index is written
   with identical (document, score) sequences both times. *)
C1_SameQueryTwiceSameScores ==
    (Ran /\ prev.model = last.model /\ prev.row = last.row) => last.result = prev.result

(* C2: on a corpus of at most 100 documents and a non-empty query, the result of
   ql_ranking names every document of the corpus exactly once. *)
C2_QlEveryDocumentOnce ==
    (Ran /\ last.model = "ql" /\ last.row # <<>> /\ Len(corpus) <= TopK)
        => \A id \in DocIds : Count(last.result, id) = 1

(* C3: a document that contains none of the query terms has no entry in the
   result of bm25_ranking. *)
C3_Bm25OnlyMatchingDocuments ==
    (Ran /\ last.model = "bm25")
        => \A j \in 1..Len(last.result) :
              /\ last.result[j].doc_id \in DocIds
              /\ \E t \in TermsOf(last.row) : Freq(DocOf(last.result[j].doc_id), t) > 0

\* a bm25 query returned entries although some non-empty document shares no term with it
C3_Witness ==
    /\ Ran /\ last.model = "bm25" /\ last.result # <<>>
    /\ \E d \in 1..Len(corpus) :
          /\ Tokens(d) # <<>>
          /\ \A t \in TermsOf(last.row) : Freq(d, t) = 0

\* the sum over the query terms document d contains of first * second * third
Bm25Sum(d, row) ==
    LET c  == Counter(row)
        ts == {t \in TermsOf(row) : Freq(d, t) > 0}
        N  == Len(corpus)
        f  == [t \in ts |->
                 Bm25Term(N, FxDiv(collectionLength * Scale, N * Scale),
                          Cardinality({e \in 1..N : Freq(e, t) > 0}),
                          c.count[t], Freq(d, t), Len(Tokens(d)))]
    IN  Sum(f, ts)

(* C4: when at most 100 documents match, the result of bm25_ranking holds exactly
   one entry for each document that shares a term with the query, and the entry's
   score is the sum of the contributions of the query terms the document contains. *)
C4_Bm25OneEntryPerMatchingDocument ==
    (Ran /\ last.model = "bm25")
        => \A d \in 1..Len(corpus) :
              (\E t \in TermsOf(last.row) : Freq(d, t) > 0)
                  => /\ Count(last.result, corpus[d].sceneId) = 1
                     /\ \A j \in 1..Len(last.result) :
                           last.result[j].doc_id = corpus[d].sceneId
                               => last.result[j].score = Bm25Sum(d, last.row)

\* the place of produced[i] in the produced entries sorted by non-increasing score,
\* entries of equal score in the order they were produced
Place(p, i) ==
    1 + Cardinality({j \in 1..Len(p) :
                        p[j].score > p[i].score \/ (p[j].score = p[i].score /\ j < i)})

(* C5: what a scorer returns is the first min(100, n) of its n scored entries sorted
   by non-increasing score, entries of equal score in the order the scorer produced
   them; with n < 100 all n entries are returned. *)
C5_TopHundredStableDescending ==
    Ran => LET p == last.produced
               r == last.result
           IN  /\ Len(r) = Min(TopK, Len(p))
               /\ \A i \in 1..Len(p) : Place(p, i) <= TopK => r[Place(p, i)] = p[i]

\* a scorer produced more than 100 entries, some tied between different documents,
\* and returned 100 of them
C5_Witness ==
    /\ Ran /\ Len(last.produced) > TopK /\ Len(last.result) = TopK
    /\ \E i, j \in 1..Len(last.result) :
          /\ i < j
          /\ last.result[i].score = last.result[j].score
          /\ last.result[i].doc_id # last.result[j].doc_id
    /\ \E i, j \in 1..Len(last.result) : last.result[i].score > last.result[j].score

----------------------------------------------------------------------------
(* The tokens of a text, said without splitting it *)

\* a token starts at i: a non-blank character at the start or behind a blank
IsStart(text, i) == text[i] # " " /\ (i = 1 \/ text[i - 1] = " ")

Starts(text) == {i \in 1..Len(text) : IsStart(text, i)}

\* the token that starts at i: the characters up to the next blank or the end
TokenAt(text, i) ==
    LET e == CHOOSE e \in i..Len(text) :
                 /\ \A k \in i..e : text[k] # " "
                 /\ (e = Len(text) \/ text[e + 1] = " ")
    IN  SubSeq(text, i, e)

\* the 0-based offset of the token that starts at i
OffsetOf(text, i) == Cardinality({s \in Starts(text) : s < i})

Occurrences(text, term) ==
    {OffsetOf(text, s) : s \in {s \in Starts(text) : TokenAt(text, s) = term}}

TermsIn(text) == {TokenAt(text, s) : s \in Starts(text)}

PostingsOf(idx, term, id) ==
    IF term \in DOMAIN idx
    THEN {k \in 1..Len(idx[term]) : idx[term][k].doc_id = id}
    ELSE {}

(* C6: build_index produces, for every term and document, exactly one Posting when
   the term occurs in the document and none otherwise; its positions are the 0-based
   token offsets of the term in strictly increasing order, termCount is their number
   and docLen is the document's token count; a document without tokens yields no
   posting and still counts toward N. *)
C6_BuildIndexPostings ==
    (pc = "ready" /\ nq = 0) =>
        /\ \A t \in DOMAIN index : \A k \in 1..Len(index[t]) :
              index[t][k].doc_id \in DocIds /\ index[t][k].N = Len(corpus)
        /\ \A d \in 1..Len(corpus) :
           \A t \in (DOMAIN index) \cup UNION {TermsIn(corpus[e].text) : e \in 1..Len(corpus)} :
              LET text == corpus[d].text
                  occ  == Occurrences(text, t)
                  ps   == PostingsOf(index, t, corpus[d].sceneId)
              IN  IF occ = {} THEN ps = {}
                  ELSE /\ Cardinality(ps) = 1
                       /\ LET q == index[t][CHOOSE k \in ps : TRUE]
                          IN  /\ {q.positions[k] : k \in 1..Len(q.positions)} = occ
                              /\ \A k \in 1..(Len(q.positions) - 1) :
                                    q.positions[k] < q.positions[k + 1]
                              /\ q.termCount = Len(q.positions)
                              /\ q.docLen = Cardinality(Starts(text))

\* an index built from a corpus where a term occurs at offsets 0 and 2 of a
\* three-token document
C6_Witness ==
    /\ pc = "ready" /\ nq = 0
    /\ \E t \in DOMAIN index : \E k \in 1..Len(index[t]) :
          /\ index[t][k].positions = <<0, 2>>
          /\ index[t][k].termCount = 2
          /\ index[t][k].docLen = 3

(* C7: in every state after build_index and any sequence of queries, every term key
   of the index has a non-empty posting list, cqi[t] is defined for every key t and
   equals the sum of termCount over index[t], collectionLength is the sum of the
   document lengths and N is the number of documents: scoring leaves the index's
   term set, posting lists and statistics as build_index made them. *)
C7_IndexInvariantsKept ==
    pc # "load" =>
        /\ \A t \in DOMAIN index :
              /\ index[t] # <<>>
              /\ t \in DOMAIN cqi
              /\ cqi[t] = Sum([k \in 1..Len(index[t]) |-> index[t][k].termCount],
                              1..Len(index[t]))
              /\ \A k \in 1..Len(index[t]) : index[t][k].N = Len(corpus)
        /\ collectionLength = Sum([d \in 1..Len(corpus) |-> Len(Tokens(d))], 1..Len(corpus))
        /\ DOMAIN index = DOMAIN Fresh.index

----------------------------------------------------------------------------
\* the row without the terms that occur nowhere in the corpus
Known(row) == SelectSeq(row, InCorpus)

HasUnknown(row) == \E t \in TermsOf(row) : ~InCorpus(t)

(* C8: on a non-empty corpus, scoring a query that holds a term occurring nowhere in
   the corpus raises no error under either model, and returns what the query without
   that term returns from the same index. *)
C8_UnknownTermNoErrorNoEffect ==
    [][(nq' = nq + 1 /\ Len(corpus) > 0 /\ HasUnknown(last'.row))
          => /\ ~last'.raised
             /\ pc' = "ready"
             /\ last'.result = Rank(last'.model, index, Known(last'.row)).result]_vars

\* a ql query with a known and an unknown term was scored and returned entries
C8_Witness ==
    /\ Ran /\ last.model = "ql" /\ HasUnknown(last.row) /\ Known(last.row) # <<>>
    /\ last.result # <<>>

\* one contribution per query term for document d
QlSum(d, row) ==
    LET ts == TermsOf(row)
        f  == [t \in ts |-> QlTerm(Freq(d, t), cqi[t], collectionLength, Len(Tokens(d)))]
    IN  Sum(f, ts)

(* C9: on a freshly built index, the score ql_ranking returns for a document is the
   sum of exactly one contribution per query term, fqi being the term's frequency in
   that document (0 if absent). *)
C9_QlOneContributionPerTerm ==
    (Ran /\ nq = 1 /\ last.model = "ql" /\ ~HasUnknown(last.row))
        => \A j \in 1..Len(last.result) :
              last.result[j].score = QlSum(DocOf(last.result[j].doc_id), last.row)

(* C10: whatever earlier queries left in the postings' score fields, bm25_ranking
   returns the entries and scores it returns on a freshly built index. *)
C10_Bm25IgnoresLeftoverScores ==
    (Ran /\ last.model = "bm25")
        => last.result = bm25_ranking(Fresh.index, Counter(last.row), corpus,
                                      collectionLength).result

\* a bm25 query returned a posting in whose score field a ql query had left a value
C10_Witness ==
    /\ Ran /\ last.model = "bm25" /\ prev.model = "ql"
    /\ \E i \in 1..Len(last.result), j \in 1..Len(prev.result) :
          /\ last.result[i].doc_id = prev.result[j].doc_id
          /\ prev.result[j].score # 0
          /\ TermsOf(last.row) = TermsOf(prev.row)
          /\ Cardinality(TermsOf(last.row)) = 1

=============================================================================
